---- MODULE Spec2Model ----
(***************************************************************************)
(* Session controller of the knowledge quiz (KnowledgeQuizSession) and the *)
(* adapters it calls.  The repository holds two generations of the         *)
(* controller that the specification was written from:                     *)
(*   "v3"  src/src/components/quiz/KnowledgeQuizSession.tsx, lines 1273ff  *)
(*         (scores, review mode, image generation, no narration)           *)
(*   "p2"  src/unnamed/part_002 (same controller with audio narration)     *)
(* The variable `variant` fixes, for a whole behaviour, which of the two   *)
(* is running.  Every asynchronous collaborator call is an in-flight       *)
(* record (`call` for the awaited phase calls, `ttsPending` for the        *)
(* narration requests nobody awaits) and completes in a separate action.   *)
(***************************************************************************)
EXTENDS Integers, Sequences, FiniteSets, TLC

\* ---------------------------------------------------------------- bounds
NumQuestions == 2      \* distinct question texts the question source can return
MaxHistory == 2        \* fresh answers per session
MaxReviewAnswers == 2  \* review re-answers per session
MaxPending == 2        \* narration requests in flight at once

\* ------------------------------------------------------ program constants
MAX_POINTS_PER_QUESTION == 5
REVIEW_SCORE_THRESHOLD == 3
\* configFormSchema: topic: z.string().min(3).max(100)
TopicMinLength == 3
TopicMaxLength == 100

\* ----------------------------------------------------------------- values
Null == "null"
Question(i) == "Q" \o ToString(i)
Questions == {Question(i) : i \in 1..NumQuestions}
\* what the user types: a first answer to a fresh question, another one when
\* the question comes back in review
Answers == {"answer", "review answer"}
\* scores a successful evaluation returns: just below the threshold, the
\* threshold itself, the maximum (0 is what a failed evaluation is replaced by)
ScoreValues == {REVIEW_SCORE_THRESHOLD - 1, REVIEW_SCORE_THRESHOLD, MAX_POINTS_PER_QUESTION}

VARIABLES
  variant,                       \* "v3" or "p2"
  currentStep,
  topicIntroductionText,
  currentQuestionText,
  history,
  incorrectlyAnsweredQuestions,
  isReviewMode,
  currentReviewQuestionIndex,
  summaryText,
  furtherLearningSuggestions,
  errorMessage,
  isLoading,
  isEvaluating,
  isGeneratingImage,
  showExplanationSection,
  currentExplanation,
  currentGeneratedImageDataUri,
  currentAwardedPoints,
  currentUserScore,
  currentTotalPossibleScore,
  currentAudioUri,
  isFetchingAudio,
  audioPlayer,                   \* TRUE while the <audio> element is playing
  ttsPending,                    \* textToSpeech requests in flight, in issue order
  call,                          \* the awaited collaborator call in flight
  lastAction                     \* the handler or completion that ran last

sessionVars == <<history, incorrectlyAnsweredQuestions, isReviewMode,
                 currentReviewQuestionIndex, currentUserScore, currentTotalPossibleScore>>
explanationVars == <<showExplanationSection, currentExplanation,
                     currentGeneratedImageDataUri, currentAwardedPoints>>
summaryVars == <<summaryText, furtherLearningSuggestions>>
audioVars == <<currentAudioUri, isFetchingAudio, audioPlayer, ttsPending>>
vars == <<variant, currentStep, topicIntroductionText, currentQuestionText, history,
          incorrectlyAnsweredQuestions, isReviewMode, currentReviewQuestionIndex,
          summaryText, furtherLearningSuggestions, errorMessage, isLoading,
          isEvaluating, isGeneratingImage, showExplanationSection, currentExplanation,
          currentGeneratedImageDataUri, currentAwardedPoints, currentUserScore,
          currentTotalPossibleScore, currentAudioUri, isFetchingAudio, audioPlayer,
          ttsPending, call, lastAction>>

\* ------------------------------------------------------------ in-flight call
\* topic is the length of the topic a configuration submit passes on (0 in the
\* calls that are not followed for it)
NoCall == [kind |-> "none", answer |-> Null, score |-> 0, explanation |-> Null,
           finalHistory |-> <<>>, topic |-> 0]
Call(kind) == [NoCall EXCEPT !.kind = kind]

\* --------------------------------------------------------------- narration
\* a textToSpeech request and the audio it returns carry no text here, only
\* whether a later request has been issued since (superseded) and whether the
\* session was restarted since (preRestart)
NoAudio == [audio |-> FALSE, superseded |-> FALSE, preRestart |-> FALSE]
Request == [audio |-> TRUE, superseded |-> FALSE, preRestart |-> FALSE]

RECURSIVE Sum(_)
Sum(s) == IF s = <<>> THEN 0 ELSE Head(s).awardedPoints + Sum(Tail(s))

Init ==
  /\ variant \in {"v3", "p2"}
  /\ currentStep = "config"
  /\ topicIntroductionText = Null
  /\ currentQuestionText = Null
  /\ history = <<>>
  /\ incorrectlyAnsweredQuestions = <<>>
  /\ isReviewMode = FALSE
  /\ currentReviewQuestionIndex = 0
  /\ summaryText = Null
  /\ furtherLearningSuggestions = 0
  /\ errorMessage = Null
  /\ isLoading = FALSE
  /\ isEvaluating = FALSE
  /\ isGeneratingImage = FALSE
  /\ showExplanationSection = FALSE
  /\ currentExplanation = Null
  /\ currentGeneratedImageDataUri = Null
  /\ currentAwardedPoints = -1
  /\ currentUserScore = 0
  /\ currentTotalPossibleScore = 0
  /\ currentAudioUri = NoAudio
  /\ isFetchingAudio = FALSE
  /\ audioPlayer = FALSE
  /\ ttsPending = <<>>
  /\ call = NoCall
  /\ lastAction = "init"

\* the handler or completion that runs in this step
Did(action) == lastAction' = action

\* ------------------------------------------------------------- adapters
\* what the question model can hand back to knowledgeQuizFlow
RawQuestionOutputs ==
  {[type |-> "undefined", text |-> ""], [type |-> "null", text |-> ""],
   [type |-> "number", text |-> ""], [type |-> "string", text |-> ""],
   [type |-> "string", text |-> " "]}
  \cup {[type |-> "string", text |-> q] : q \in Questions}

\* question texts are numbered in the order the question model first uses
\* them: after k distinct questions it repeats one of them or uses the next
NextRawOutputs(hist) ==
  LET asked == {hist[i].question : i \in 1..Len(hist)}
      fresh == {Question(i) : i \in 1..NumQuestions} \ asked
      next == IF fresh = {} THEN {}
              ELSE {Question(CHOOSE i \in 1..NumQuestions :
                      /\ Question(i) \in fresh
                      /\ \A j \in 1..(i - 1) : Question(j) \in asked)}
  IN {raw \in RawQuestionOutputs : raw.text \in Questions => raw.text \in asked \cup next}

\* knowledgeQuizFlow: absent, null and non-string results become "", a string
\* (also a blank one) is passed on unchanged
knowledgeQuizFlow(raw) ==
  IF raw.type \in {"undefined", "null"} THEN ""
  ELSE IF raw.type = "string" THEN raw.text
  ELSE ""

\* the same test with the trim() forgotten
IsQuestionUntrimmed(text) == text # ""

\* output.nextQuestion && output.nextQuestion.trim() !== ""
IsQuestion(text) == text # "" /\ text # " "

\* the prompt of quizSummaryFlow asks for "between 3 to 5 suggestions"
MinSuggestions == 3
MaxSuggestions == 5

\* what the summary model can hand back to quizSummaryFlow; suggestions = -1
\* stands for a furtherLearningSuggestions that is not an array
RawSummaryOutputs ==
  {[summary |-> "text", suggestions |-> 3], [summary |-> "text", suggestions |-> 0],
   [summary |-> " ", suggestions |-> 3], [summary |-> "text", suggestions |-> -1]}

quizSummaryFlow(raw) ==
  IF raw.summary \in {"", " "} \/ raw.suggestions = -1
  THEN [summary |-> "default", suggestions |-> 2]
  ELSE raw

\* the same filter with <= in place of <
IsLowScoreInclusive(item) == item.awardedPoints <= REVIEW_SCORE_THRESHOLD

\* history.filter(item => typeof item.awardedPoints === 'number' &&
\*                        item.awardedPoints < REVIEW_SCORE_THRESHOLD)
IsLowScore(item) == item.awardedPoints < REVIEW_SCORE_THRESHOLD

LowScoring(hist) == SelectSeq(hist, IsLowScore)

\* ----------------------------------------------------- narration channel
\* fetchAndPlayNarration with a non-empty text, up to its await: the request
\* joins the ones already in flight, none of which is cancelled
CanSpeak == Len(ttsPending) < MaxPending

Speak(text) ==
  /\ isFetchingAudio' = TRUE
  /\ currentAudioUri' = NoAudio
  /\ ttsPending' = Append([i \in 1..Len(ttsPending) |->
                             [ttsPending[i] EXCEPT !.superseded = TRUE]], Request)
  /\ UNCHANGED audioPlayer

\* setCurrentAudioUri(null): the playback effect returns early, the <audio>
\* element is left alone
StopAudio ==
  /\ currentAudioUri' = NoAudio
  /\ UNCHANGED <<isFetchingAudio, audioPlayer, ttsPending>>

RemoveAt(s, i) == SubSeq(s, 1, i - 1) \o SubSeq(s, i + 1, Len(s))

\* a narration failure handled like the failure of a fetch: error screen
textToSpeechDoneFailing ==
  /\ variant = "p2"
  /\ \E i \in 1..Len(ttsPending), audio \in BOOLEAN :
       /\ ttsPending' = RemoveAt(ttsPending, i)
       /\ currentAudioUri' = IF audio THEN ttsPending[i] ELSE NoAudio
       /\ audioPlayer' = (audio \/ audioPlayer)
       /\ isFetchingAudio' = FALSE
       /\ currentStep' = IF audio THEN currentStep ELSE "error"
       /\ errorMessage' = IF audio THEN errorMessage ELSE "Narration Error"
       /\ Did(IF audio THEN "ttsAudio" ELSE "ttsNoAudio")
  /\ UNCHANGED <<variant, topicIntroductionText, currentQuestionText,
                 sessionVars, summaryVars, isLoading, isEvaluating,
                 isGeneratingImage, explanationVars, call>>

\* textToSpeech resolves (with audio or without) for the request at position i;
\* a new currentAudioUri runs the playback effect
textToSpeechDone ==
  /\ variant = "p2"
  /\ \E i \in 1..Len(ttsPending), audio \in BOOLEAN :
       /\ ttsPending' = RemoveAt(ttsPending, i)
       /\ currentAudioUri' = IF audio THEN ttsPending[i] ELSE NoAudio
       /\ audioPlayer' = (audio \/ audioPlayer)
       /\ isFetchingAudio' = FALSE
       /\ Did(IF audio THEN "ttsAudio" ELSE "ttsNoAudio")
  /\ UNCHANGED <<variant, currentStep, topicIntroductionText, currentQuestionText,
                 sessionVars, summaryVars, errorMessage, isLoading, isEvaluating,
                 isGeneratingImage, explanationVars, call>>

\* the utterance plays to its end
audioEnded ==
  /\ audioPlayer
  /\ audioPlayer' = FALSE
  /\ Did("audioEnded")
  /\ UNCHANGED <<variant, currentStep, topicIntroductionText, currentQuestionText,
                 sessionVars, summaryVars, errorMessage, isLoading, isEvaluating,
                 isGeneratingImage, explanationVars, call, currentAudioUri,
                 isFetchingAudio, ttsPending>>

\* !textToNarrate || textToNarrate.trim() === ""
IsBlank(text) == text \in {"", " "}

\* fetchAndPlayNarration up to its await, for any text: a blank text is not
\* sent to textToSpeech, but currentAudioUri and isFetchingAudio are reset
fetchAndPlayNarration(textToNarrate) ==
  IF IsBlank(textToNarrate)
  THEN /\ currentAudioUri' = NoAudio
       /\ isFetchingAudio' = FALSE
       /\ UNCHANGED <<audioPlayer, ttsPending>>
  ELSE /\ CanSpeak
       /\ Speak(textToNarrate)

\* the same gate with isEvaluating left out
BusyWithoutEvaluating == isLoading \/ isGeneratingImage \/ isFetchingAudio

Busy == isLoading \/ isEvaluating \/ isGeneratingImage \/ isFetchingAudio

ResetExplanation ==
  /\ showExplanationSection' = FALSE
  /\ currentExplanation' = Null
  /\ currentGeneratedImageDataUri' = Null
  /\ currentAwardedPoints' = -1

ResetSession ==
  /\ history' = <<>>
  /\ incorrectlyAnsweredQuestions' = <<>>
  /\ isReviewMode' = FALSE
  /\ currentReviewQuestionIndex' = 0
  /\ currentUserScore' = 0
  /\ currentTotalPossibleScore' = 0

\* what the evaluation model can hand back to evaluateAnswerGenkitFlow: a
\* complete result with each of the scores, one that also asks for an
\* illustration (the controller handles the request the same way whatever the
\* score), an incomplete result, or an exception from the prompt
RawEvaluations ==
  {[kind |-> "valid", score |-> sc, image |-> FALSE] : sc \in ScoreValues}
  \cup {[kind |-> "valid", score |-> REVIEW_SCORE_THRESHOLD - 1, image |-> TRUE],
        [kind |-> "invalid", score |-> 0, image |-> FALSE],
        [kind |-> "throws", score |-> 0, image |-> FALSE]}

EvaluateAnswerOutput(threw, awardedScore, explanation, image) ==
  [threw |-> threw, awardedScore |-> awardedScore, explanation |-> explanation,
   image |-> image]

\* evaluate-answer-flow.ts: an incomplete result and an exception are both
\* replaced by a zero score with a text that says what went wrong (the texts
\* differ in wording only and no code looks at them: one value stands for all)
evaluateAnswerFlowV3(raw) ==
  IF raw.kind = "valid"
  THEN EvaluateAnswerOutput(FALSE, raw.score, "explanation", raw.image)
  ELSE IF raw.kind = "invalid"
  THEN EvaluateAnswerOutput(FALSE, 0, "fallback explanation", FALSE)
  ELSE EvaluateAnswerOutput(FALSE, 0, "fallback explanation", FALSE)

\* dev.ts: an incomplete result and an exception are both rethrown
evaluateAnswerFlow(raw) ==
  IF raw.kind = "valid"
  THEN EvaluateAnswerOutput(FALSE, raw.score, "explanation", raw.image)
  ELSE EvaluateAnswerOutput(TRUE, 0, Null, FALSE)

\* ======================================================= controller "p2"
\* fetchTopicIntroduction / fetchInitialQuestion / fetchNextQuestion /
\* handleQuizEnd, each up to its await
StartLoading(kind, finalHistory) ==
  /\ isLoading' = TRUE
  /\ currentStep' = "loading"
  /\ errorMessage' = Null
  /\ call' = [Call(kind) EXCEPT !.finalHistory = finalHistory, !.topic = call.topic]

\* a catch block that reports the error but forgets setCurrentStep('error')
FailWithoutErrorStep(message) ==
  /\ errorMessage' = message
  /\ isLoading' = FALSE
  /\ call' = NoCall
  /\ UNCHANGED currentStep

\* the catch and finally blocks of the four fetches
Fail(message) ==
  /\ errorMessage' = message
  /\ currentStep' = "error"
  /\ isLoading' = FALSE
  /\ call' = NoCall

\* the topics a user can type, by length: around the two limits of the schema
TopicLengths == {TopicMinLength - 1, TopicMinLength, TopicMaxLength, TopicMaxLength + 1}

\* the schema with the lower limit forgotten
configFormSchemaWithoutMin(topicLength) == topicLength <= TopicMaxLength

\* zodResolver(configFormSchema): configForm.handleSubmit runs the handler only
\* with a topic the schema accepts
configFormSchema(topicLength) ==
  topicLength >= TopicMinLength /\ topicLength <= TopicMaxLength

\* the configuration form is submitted with a topic the schema rejects: the
\* form shows its message, the handler is not called
configFormInvalid ==
  /\ variant = "p2"
  /\ currentStep = "config"
  /\ ~Busy
  /\ \E topicLength \in TopicLengths : ~configFormSchema(topicLength)
  /\ Did("configFormInvalid")
  /\ UNCHANGED <<variant, currentStep, topicIntroductionText, currentQuestionText,
                 sessionVars, summaryVars, errorMessage, isLoading, isEvaluating,
                 isGeneratingImage, explanationVars, audioVars, call>>

\* the configuration form passed validation and was submitted
handleConfigSubmit ==
  /\ variant = "p2"
  /\ currentStep = "config"
  /\ ~Busy
  /\ \E pdfFile \in BOOLEAN, topicLength \in TopicLengths :
       /\ configFormSchema(topicLength)
       /\ isLoading' = TRUE
       /\ currentStep' = "loading"
       /\ errorMessage' = IF pdfFile THEN "Processing PDF..." ELSE Null
       /\ call' = [Call(IF pdfFile THEN "readFileAsDataURI" ELSE "getTopicIntroduction")
                     EXCEPT !.topic = topicLength]
  /\ topicIntroductionText' = Null
  /\ StopAudio
  /\ ResetSession
  /\ Did("handleConfigSubmit")
  /\ UNCHANGED <<variant, currentQuestionText, summaryVars, isEvaluating,
                 isGeneratingImage, explanationVars>>

\* a PDF-read failure that returns to the form without ending the loading
readFileAsDataURIDoneKeepingLoading ==
  /\ variant = "p2"
  /\ call.kind = "readFileAsDataURI"
  /\ \/ /\ StartLoading("getTopicIntroduction", <<>>)
        /\ Did("pdfRead")
     \/ /\ errorMessage' = "Failed to process PDF"
        /\ currentStep' = "config"
        /\ call' = NoCall
        /\ Did("pdfFailed")
        /\ UNCHANGED isLoading
  /\ UNCHANGED <<variant, topicIntroductionText, currentQuestionText, sessionVars,
                 summaryVars, isEvaluating, isGeneratingImage, explanationVars, audioVars>>

\* readFileAsDataURI resolves, or rejects and the form comes back
readFileAsDataURIDone ==
  /\ variant = "p2"
  /\ call.kind = "readFileAsDataURI"
  /\ \/ /\ StartLoading("getTopicIntroduction", <<>>)
        /\ Did("pdfRead")
     \/ /\ errorMessage' = "Failed to process PDF"
        /\ isLoading' = FALSE
        /\ currentStep' = "config"
        /\ call' = NoCall
        /\ Did("pdfFailed")
  /\ UNCHANGED <<variant, topicIntroductionText, currentQuestionText, sessionVars,
                 summaryVars, isEvaluating, isGeneratingImage, explanationVars, audioVars>>

\* what getTopicIntroduction can resolve with: a real introduction, or the
\* text an adapter puts in its place when the model gave none
IntroductionTexts == {"introduction", "Could not generate an introduction"}

\* output.introductionText && !...includes("unexpected server error") &&
\* !...includes("model not found") && !...includes("could not generate")
IsUsableIntroduction(text) == text = "introduction"

\* getTopicIntroduction resolves or rejects
fetchTopicIntroductionDone ==
  /\ variant = "p2"
  /\ call.kind = "getTopicIntroduction"
  /\ \/ \E introductionText \in IntroductionTexts :
          IF IsUsableIntroduction(introductionText)
          THEN /\ CanSpeak
               /\ topicIntroductionText' = introductionText
               /\ Speak(introductionText)
               /\ currentStep' = "introduction"
               /\ isLoading' = FALSE
               /\ call' = NoCall
               /\ Did("introductionReady")
               /\ UNCHANGED errorMessage
          ELSE /\ Fail("Introduction Error")
               /\ Did("introductionSoftFailed")
               /\ UNCHANGED <<topicIntroductionText, audioVars>>
     \/ /\ Fail("couldn't get topic introduction")
        /\ Did("introductionFailed")
        /\ UNCHANGED <<topicIntroductionText, audioVars>>
  /\ UNCHANGED <<variant, currentQuestionText, sessionVars, summaryVars, isEvaluating,
                 isGeneratingImage, explanationVars>>

handleProceedToQuestions ==
  /\ variant = "p2"
  /\ currentStep = "introduction"
  /\ topicIntroductionText # Null
  /\ ~isLoading /\ ~isFetchingAudio
  /\ StartLoading("firstQuestion", <<>>)
  /\ ResetExplanation
  /\ StopAudio
  /\ Did("handleProceedToQuestions")
  /\ UNCHANGED <<variant, topicIntroductionText, currentQuestionText, sessionVars,
                 summaryVars, isEvaluating, isGeneratingImage>>

\* knowledgeQuizFlow resolves (first or next question) or rejects; without a
\* question the summary is requested with the history the fetch was given
fetchQuestionDone ==
  /\ variant = "p2"
  /\ call.kind \in {"firstQuestion", "nextQuestion"}
  /\ \/ \E raw \in NextRawOutputs(call.finalHistory) :
          LET nextQuestion == knowledgeQuizFlow(raw) IN
          IF IsQuestion(nextQuestion)
          THEN /\ CanSpeak
               /\ currentQuestionText' = nextQuestion
               /\ Speak(nextQuestion)
               /\ currentStep' = "questioning"
               /\ isLoading' = FALSE
               /\ call' = NoCall
               /\ Did("questionLoaded")
               /\ UNCHANGED errorMessage
          ELSE /\ StartLoading("getQuizSummary", call.finalHistory)
               /\ Did("noQuestion")
               /\ UNCHANGED <<currentQuestionText, audioVars>>
     \/ /\ Fail("couldn't get question")
        /\ Did("questionFailed")
        /\ UNCHANGED <<currentQuestionText, audioVars>>
  /\ UNCHANGED <<variant, topicIntroductionText, sessionVars, summaryVars, isEvaluating,
                 isGeneratingImage, explanationVars>>

\* getQuizSummary resolves or rejects
handleQuizEndDone ==
  /\ variant = "p2"
  /\ call.kind = "getQuizSummary"
  /\ \/ \E raw \in RawSummaryOutputs :
          LET summaryOutput == quizSummaryFlow(raw) IN
          IF summaryOutput.summary \notin {"", " "}
          THEN /\ CanSpeak
               /\ summaryText' = summaryOutput.summary
               /\ furtherLearningSuggestions' = summaryOutput.suggestions
               /\ currentUserScore' = Sum(call.finalHistory)
               /\ currentTotalPossibleScore' =
                    Len(call.finalHistory) * MAX_POINTS_PER_QUESTION
               /\ Speak(summaryOutput.summary)
               /\ currentStep' = "summary"
               /\ isLoading' = FALSE
               /\ call' = NoCall
               /\ Did("summaryReady")
               /\ UNCHANGED errorMessage
          ELSE /\ Fail("Could not generate a summary")
               /\ Did("summaryFailed")
               /\ UNCHANGED <<summaryVars, currentUserScore, currentTotalPossibleScore,
                              audioVars>>
     \/ /\ Fail("Failed to get quiz summary")
        /\ Did("summaryFailed")
        /\ UNCHANGED <<summaryVars, currentUserScore, currentTotalPossibleScore, audioVars>>
  /\ UNCHANGED <<variant, topicIntroductionText, currentQuestionText, history,
                 incorrectlyAnsweredQuestions, isReviewMode, currentReviewQuestionIndex,
                 isEvaluating, isGeneratingImage, explanationVars>>

HistoryItem(question, answer, explanation, image, awardedPoints) ==
  [question |-> question, answer |-> answer, explanation |-> explanation,
   generatedImageDataUri |-> image, awardedPoints |-> awardedPoints]

\* a submit button that stays in place and enabled next to the explanation
handleAnswerSubmitBesideExplanation ==
  /\ variant = "p2"
  /\ currentStep = "questioning"
  /\ currentQuestionText # Null
  /\ ~Busy
  /\ Len(history) < MaxHistory
  /\ call' = [Call("evaluateAnswer") EXCEPT !.answer = "answer"]
  /\ isEvaluating' = TRUE
  /\ StopAudio
  /\ Did("handleAnswerSubmit")
  /\ UNCHANGED <<variant, currentStep, topicIntroductionText, currentQuestionText,
                 sessionVars, summaryVars, errorMessage, isLoading, isGeneratingImage,
                 explanationVars>>

handleAnswerSubmit ==
  /\ variant = "p2"
  /\ currentStep = "questioning"
  /\ currentQuestionText # Null
  /\ ~showExplanationSection
  /\ ~Busy
  /\ Len(history) < MaxHistory
  /\ call' = [Call("evaluateAnswer") EXCEPT !.answer = "answer"]
  /\ isEvaluating' = TRUE
  /\ StopAudio
  /\ Did("handleAnswerSubmit")
  /\ UNCHANGED <<variant, currentStep, topicIntroductionText, currentQuestionText,
                 sessionVars, summaryVars, errorMessage, isLoading, isGeneratingImage,
                 explanationVars>>

\* recording the answer and asking for the next question in the same breath
RecordAnswerThenNextQuestion(answer, explanation, image, awardedScore) ==
  LET newHistoryItem ==
        HistoryItem(currentQuestionText, answer, explanation, image, awardedScore) IN
  /\ CanSpeak
  /\ Speak(explanation)
  /\ history' = Append(history, newHistoryItem)
  /\ currentUserScore' = currentUserScore + awardedScore
  /\ currentTotalPossibleScore' = currentTotalPossibleScore + MAX_POINTS_PER_QUESTION
  /\ incorrectlyAnsweredQuestions' =
       IF awardedScore < REVIEW_SCORE_THRESHOLD
       THEN Append(incorrectlyAnsweredQuestions, newHistoryItem)
       ELSE incorrectlyAnsweredQuestions
  /\ isEvaluating' = FALSE
  /\ call' = [Call("nextQuestion") EXCEPT !.finalHistory = history']
  /\ UNCHANGED <<isReviewMode, currentReviewQuestionIndex>>

\* the rest of handleAnswerSubmit's try block once the image question is settled:
\* narrate the explanation, append the item, add to the running scores
RecordAnswer(answer, explanation, image, awardedScore) ==
  LET newHistoryItem ==
        HistoryItem(currentQuestionText, answer, explanation, image, awardedScore) IN
  /\ CanSpeak
  /\ Speak(explanation)
  /\ history' = Append(history, newHistoryItem)
  /\ currentUserScore' = currentUserScore + awardedScore
  /\ currentTotalPossibleScore' = currentTotalPossibleScore + MAX_POINTS_PER_QUESTION
  /\ incorrectlyAnsweredQuestions' =
       IF awardedScore < REVIEW_SCORE_THRESHOLD
       THEN Append(incorrectlyAnsweredQuestions, newHistoryItem)
       ELSE incorrectlyAnsweredQuestions
  /\ isEvaluating' = FALSE
  /\ call' = NoCall
  /\ UNCHANGED <<isReviewMode, currentReviewQuestionIndex>>

\* evaluateAnswer resolves or rejects
evaluateAnswerDone ==
  /\ variant = "p2"
  /\ call.kind = "evaluateAnswer"
  /\ \E raw \in RawEvaluations :
       LET output == evaluateAnswerFlow(raw) IN
       IF ~output.threw
       THEN /\ currentExplanation' = output.explanation
            /\ currentAwardedPoints' = output.awardedScore
            /\ showExplanationSection' = TRUE
            /\ currentGeneratedImageDataUri' = Null
            /\ IF output.image
               THEN /\ isGeneratingImage' = TRUE
                    /\ call' = [call EXCEPT !.kind = "generateImage",
                                            !.score = output.awardedScore,
                                            !.explanation = output.explanation]
                    /\ Did("evaluatedWithPrompt")
                    /\ UNCHANGED <<sessionVars, isEvaluating, audioVars>>
               ELSE /\ RecordAnswer(call.answer, output.explanation, Null,
                                    output.awardedScore)
                    /\ Did("evaluated")
                    /\ UNCHANGED isGeneratingImage
            /\ UNCHANGED <<currentStep, errorMessage>>
       ELSE /\ errorMessage' = "Error processing answer"
            /\ currentStep' = "questioning"
            /\ showExplanationSection' = FALSE
            /\ isEvaluating' = FALSE
            /\ call' = NoCall
            /\ Did("evaluationFailed")
            /\ UNCHANGED <<sessionVars, isGeneratingImage, currentExplanation,
                           currentGeneratedImageDataUri, currentAwardedPoints, audioVars>>
  /\ UNCHANGED <<variant, topicIntroductionText, currentQuestionText, summaryVars,
                 isLoading>>

\* an image failure handled like the failure of a fetch: error screen, nothing
\* recorded
generateImageDoneFailing ==
  /\ variant = "p2"
  /\ call.kind = "generateImage"
  /\ \E result \in {"image", "none", "throw"} :
       IF result = "image"
       THEN /\ currentGeneratedImageDataUri' = "image"
            /\ RecordAnswer(call.answer, call.explanation, "image", call.score)
            /\ Did("imageReady")
            /\ UNCHANGED <<currentStep, errorMessage, isLoading>>
       ELSE /\ Fail("Failed to generate image")
            /\ isEvaluating' = FALSE
            /\ Did("imageFailed")
            /\ UNCHANGED <<sessionVars, audioVars, currentGeneratedImageDataUri>>
  /\ isGeneratingImage' = FALSE
  /\ UNCHANGED <<variant, topicIntroductionText, currentQuestionText, summaryVars,
                 showExplanationSection, currentExplanation, currentAwardedPoints>>

\* generateImage resolves with an image, resolves without one, or rejects
generateImageDone ==
  /\ variant = "p2"
  /\ call.kind = "generateImage"
  /\ \E result \in {"image", "none", "throw"} :
       LET image == IF result = "image" THEN "image" ELSE Null IN
       /\ currentGeneratedImageDataUri' = image
       /\ RecordAnswer(call.answer, call.explanation, image, call.score)
       /\ Did(IF result = "image" THEN "imageReady" ELSE "imageFailed")
  /\ isGeneratingImage' = FALSE
  /\ UNCHANGED <<variant, currentStep, topicIntroductionText, currentQuestionText,
                 summaryVars, errorMessage, isLoading, showExplanationSection,
                 currentExplanation, currentAwardedPoints>>

handleProceedToNextQuestion ==
  /\ variant = "p2"
  /\ currentStep = "questioning"
  /\ currentQuestionText # Null
  /\ showExplanationSection
  /\ ~Busy
  /\ ResetExplanation
  /\ IF isReviewMode
     THEN LET nextReviewIdx == currentReviewQuestionIndex + 1 IN
          IF nextReviewIdx < Len(incorrectlyAnsweredQuestions)
          THEN /\ CanSpeak
               /\ currentReviewQuestionIndex' = nextReviewIdx
               /\ currentQuestionText' =
                    incorrectlyAnsweredQuestions[nextReviewIdx + 1].question
               /\ Speak(incorrectlyAnsweredQuestions[nextReviewIdx + 1].question)
               /\ currentStep' = "questioning"
               /\ UNCHANGED <<isReviewMode, errorMessage, isLoading, call>>
          ELSE /\ isReviewMode' = FALSE
               /\ StartLoading("getQuizSummary", history)
               /\ StopAudio
               /\ UNCHANGED <<currentReviewQuestionIndex, currentQuestionText>>
     ELSE /\ StartLoading("nextQuestion", history)
          /\ StopAudio
          /\ UNCHANGED <<isReviewMode, currentReviewQuestionIndex, currentQuestionText>>
  /\ Did("handleProceedToNextQuestion")
  /\ UNCHANGED <<variant, topicIntroductionText, history, incorrectlyAnsweredQuestions,
                 currentUserScore, currentTotalPossibleScore, summaryVars, isEvaluating,
                 isGeneratingImage>>

\* a.filter((v,i,a) => a.findIndex(t => t.question === v.question) === i)
UniqueByQuestion(s) ==
  LET first(i) == \A j \in 1..(i - 1) : s[j].question # s[i].question
      keep == {i \in 1..Len(s) : first(i)}
      RECURSIVE pick(_)
      pick(i) == IF i > Len(s) THEN <<>>
                 ELSE IF i \in keep THEN <<s[i]>> \o pick(i + 1) ELSE pick(i + 1)
  IN pick(1)

\* the low-scoring history items whose question is not in the queue yet
QuestionsToReviewNow ==
  LET queued(item) == \E i \in 1..Len(incorrectlyAnsweredQuestions) :
                         incorrectlyAnsweredQuestions[i].question = item.question
      isNew(item) == IsLowScore(item) /\ ~queued(item)
  IN SelectSeq(history, isNew)

\* the "Start Review Session" button of the summary panel
handleStartReview ==
  /\ variant = "p2"
  /\ currentStep = "summary"
  /\ Len(incorrectlyAnsweredQuestions) > 0
  /\ ~isReviewMode
  /\ IF Len(QuestionsToReviewNow) > 0
     THEN /\ CanSpeak
          /\ incorrectlyAnsweredQuestions' =
               UniqueByQuestion(incorrectlyAnsweredQuestions \o QuestionsToReviewNow)
          /\ isReviewMode' = TRUE
          /\ currentReviewQuestionIndex' = 0
          /\ currentQuestionText' = QuestionsToReviewNow[1].question
          /\ Speak(QuestionsToReviewNow[1].question)
          /\ ResetExplanation
          /\ currentStep' = "questioning"
          /\ errorMessage' = Null
     ELSE UNCHANGED <<incorrectlyAnsweredQuestions, isReviewMode,
                      currentReviewQuestionIndex, currentQuestionText, audioVars,
                      explanationVars, currentStep, errorMessage>>
  /\ Did("handleStartReview")
  /\ UNCHANGED <<variant, topicIntroductionText, history, currentUserScore,
                 currentTotalPossibleScore, summaryVars, isLoading, isEvaluating,
                 isGeneratingImage, call>>

\* a restart button of the questioning screen that is never disabled
RestartEnabledWhileBusy ==
  \/ currentStep = "error" /\ errorMessage # Null
  \/ currentStep = "introduction" /\ topicIntroductionText # Null
  \/ currentStep = "questioning" /\ currentQuestionText # Null
  \/ currentStep = "summary"

\* the screens that show a restart button, and when it is enabled
RestartEnabled ==
  \/ currentStep = "error" /\ errorMessage # Null
  \/ currentStep = "introduction" /\ topicIntroductionText # Null
  \/ currentStep = "questioning" /\ currentQuestionText # Null /\ ~Busy
  \/ currentStep = "summary"

\* a "Try Again" that keeps the topic and goes back to its introduction
handleRestartQuizToIntroduction ==
  /\ variant = "p2"
  /\ RestartEnabled
  /\ currentStep' = IF topicIntroductionText # Null THEN "introduction" ELSE "config"
  /\ currentQuestionText' = Null
  /\ ResetSession
  /\ summaryText' = Null
  /\ furtherLearningSuggestions' = 0
  /\ errorMessage' = Null
  /\ isLoading' = FALSE
  /\ isEvaluating' = FALSE
  /\ isGeneratingImage' = FALSE
  /\ ResetExplanation
  /\ currentAudioUri' = NoAudio
  /\ ttsPending' = [i \in 1..Len(ttsPending) |->
                      [ttsPending[i] EXCEPT !.preRestart = TRUE]]
  /\ Did("handleRestartQuiz")
  /\ UNCHANGED <<variant, topicIntroductionText, isFetchingAudio, audioPlayer, call>>

\* handleRestartQuiz resetting in place (no onGoToHome); requests in flight are
\* not cancelled, isFetchingAudio and the <audio> element are not touched
handleRestartQuiz ==
  /\ variant = "p2"
  /\ RestartEnabled
  /\ currentStep' = "config"
  /\ topicIntroductionText' = Null
  /\ currentQuestionText' = Null
  /\ ResetSession
  /\ summaryText' = Null
  /\ furtherLearningSuggestions' = 0
  /\ errorMessage' = Null
  /\ isLoading' = FALSE
  /\ isEvaluating' = FALSE
  /\ isGeneratingImage' = FALSE
  /\ ResetExplanation
  /\ currentAudioUri' = NoAudio
  /\ ttsPending' = [i \in 1..Len(ttsPending) |->
                      [ttsPending[i] EXCEPT !.preRestart = TRUE]]
  /\ Did("handleRestartQuiz")
  /\ UNCHANGED <<variant, isFetchingAudio, audioPlayer, call>>

\* the three "read aloud" buttons
readIntroductionAloud ==
  /\ variant = "p2"
  /\ currentStep = "introduction"
  /\ topicIntroductionText # Null
  /\ ~isFetchingAudio
  /\ CanSpeak
  /\ Speak(topicIntroductionText)
  /\ Did("readIntroductionAloud")
  /\ UNCHANGED <<variant, currentStep, topicIntroductionText, currentQuestionText,
                 sessionVars, summaryVars, errorMessage, isLoading, isEvaluating,
                 isGeneratingImage, explanationVars, call>>

readQuestionAloud ==
  /\ variant = "p2"
  /\ currentStep = "questioning"
  /\ currentQuestionText # Null
  /\ ~isFetchingAudio /\ ~showExplanationSection
  /\ CanSpeak
  /\ Speak(currentQuestionText)
  /\ Did("readQuestionAloud")
  /\ UNCHANGED <<variant, currentStep, topicIntroductionText, currentQuestionText,
                 sessionVars, summaryVars, errorMessage, isLoading, isEvaluating,
                 isGeneratingImage, explanationVars, call>>

readExplanationAloud ==
  /\ variant = "p2"
  /\ currentStep = "questioning"
  /\ currentQuestionText # Null
  /\ showExplanationSection
  /\ currentExplanation # Null
  /\ ~isFetchingAudio
  /\ CanSpeak
  /\ Speak(currentExplanation)
  /\ Did("readExplanationAloud")
  /\ UNCHANGED <<variant, currentStep, topicIntroductionText, currentQuestionText,
                 sessionVars, summaryVars, errorMessage, isLoading, isEvaluating,
                 isGeneratingImage, explanationVars, call>>

P2Next ==
  \/ configFormInvalid \/ handleConfigSubmit \/ readFileAsDataURIDone \/ fetchTopicIntroductionDone
  \/ handleProceedToQuestions \/ fetchQuestionDone \/ handleQuizEndDone
  \/ handleAnswerSubmit \/ evaluateAnswerDone \/ generateImageDone
  \/ handleProceedToNextQuestion \/ handleStartReview \/ handleRestartQuiz
  \/ readIntroductionAloud \/ readQuestionAloud \/ readExplanationAloud
  \/ textToSpeechDone \/ audioEnded

\* ======================================================= controller "v3"
BusyV3 == isLoading \/ isEvaluating \/ isGeneratingImage

configFormInvalidV3 ==
  /\ variant = "v3"
  /\ currentStep = "config"
  /\ ~BusyV3
  /\ \E topicLength \in TopicLengths : ~configFormSchema(topicLength)
  /\ Did("configFormInvalid")
  /\ UNCHANGED <<variant, currentStep, topicIntroductionText, currentQuestionText,
                 sessionVars, summaryVars, errorMessage, isLoading, isEvaluating,
                 isGeneratingImage, explanationVars, audioVars, call>>

handleConfigSubmitV3 ==
  /\ variant = "v3"
  /\ currentStep = "config"
  /\ ~BusyV3
  /\ ResetSession
  /\ topicIntroductionText' = Null
  /\ isLoading' = TRUE
  /\ currentStep' = "loading"
  /\ \E pdfFile \in BOOLEAN, topicLength \in TopicLengths :
       /\ configFormSchema(topicLength)
       /\ errorMessage' = IF pdfFile THEN "Processing PDF..." ELSE Null
       /\ call' = [Call(IF pdfFile THEN "readFileAsDataURI" ELSE "getTopicIntroduction")
                     EXCEPT !.topic = topicLength]
  /\ Did("handleConfigSubmit")
  /\ UNCHANGED <<variant, currentQuestionText, summaryVars, isEvaluating,
                 isGeneratingImage, explanationVars, audioVars>>

\* the PDF is read or not: either way the introduction is fetched next
readFileAsDataURIDoneV3 ==
  /\ variant = "v3"
  /\ call.kind = "readFileAsDataURI"
  /\ StartLoading("getTopicIntroduction", <<>>)
  /\ \E read \in BOOLEAN : Did(IF read THEN "pdfRead" ELSE "pdfFailed")
  /\ UNCHANGED <<variant, topicIntroductionText, currentQuestionText, sessionVars,
                 summaryVars, isEvaluating, isGeneratingImage, explanationVars, audioVars>>

\* an introduction that is stored but not waited on: the first question is
\* fetched as soon as the introduction arrives
fetchTopicIntroductionThenQuestionV3 ==
  /\ variant = "v3"
  /\ call.kind = "getTopicIntroduction"
  /\ \/ \E introductionText \in IntroductionTexts :
          /\ topicIntroductionText' = introductionText
          /\ StartLoading("firstQuestion", <<>>)
          /\ Did(IF IsUsableIntroduction(introductionText)
                 THEN "introductionReady" ELSE "introductionSoftFailed")
     \/ /\ Fail("couldn't get the topic introduction")
        /\ Did("introductionFailed")
        /\ UNCHANGED topicIntroductionText
  /\ UNCHANGED <<variant, currentQuestionText, sessionVars, summaryVars, isEvaluating,
                 isGeneratingImage, explanationVars, audioVars>>

\* whatever text getTopicIntroduction resolves with is shown as the introduction
fetchTopicIntroductionDoneV3 ==
  /\ variant = "v3"
  /\ call.kind = "getTopicIntroduction"
  /\ \/ \E introductionText \in IntroductionTexts :
          /\ topicIntroductionText' = introductionText
          /\ currentStep' = "introduction"
          /\ isLoading' = FALSE
          /\ call' = NoCall
          /\ Did(IF IsUsableIntroduction(introductionText)
                 THEN "introductionReady" ELSE "introductionSoftFailed")
          /\ UNCHANGED errorMessage
     \/ /\ Fail("couldn't get the topic introduction")
        /\ Did("introductionFailed")
        /\ UNCHANGED topicIntroductionText
  /\ UNCHANGED <<variant, currentQuestionText, sessionVars, summaryVars, isEvaluating,
                 isGeneratingImage, explanationVars, audioVars>>

handleProceedToQuestionsV3 ==
  /\ variant = "v3"
  /\ currentStep = "introduction"
  /\ topicIntroductionText # Null
  /\ ~isLoading
  /\ StartLoading("firstQuestion", <<>>)
  /\ ResetExplanation
  /\ Did("handleProceedToQuestions")
  /\ UNCHANGED <<variant, topicIntroductionText, currentQuestionText, sessionVars,
                 summaryVars, isEvaluating, isGeneratingImage, audioVars>>

\* a question fetch that, given no further question, asks for no summary
fetchQuestionDoneWithoutSummaryV3 ==
  /\ variant = "v3"
  /\ call.kind \in {"firstQuestion", "nextQuestion"}
  /\ \/ \E raw \in NextRawOutputs(call.finalHistory) :
          LET nextQuestion == knowledgeQuizFlow(raw) IN
          IF IsQuestion(nextQuestion)
          THEN /\ currentQuestionText' = nextQuestion
               /\ currentStep' = "questioning"
               /\ isLoading' = FALSE
               /\ call' = NoCall
               /\ Did("questionLoaded")
               /\ UNCHANGED <<errorMessage, incorrectlyAnsweredQuestions, explanationVars>>
          ELSE /\ incorrectlyAnsweredQuestions' =
                    IF call.kind = "nextQuestion" THEN LowScoring(call.finalHistory)
                    ELSE incorrectlyAnsweredQuestions
               /\ currentStep' = "loading"
               /\ errorMessage' = Null
               /\ call' = NoCall
               /\ ResetExplanation
               /\ isLoading' = FALSE
               /\ Did("noQuestion")
               /\ UNCHANGED currentQuestionText
     \/ /\ Fail("couldn't get question")
        /\ Did("questionFailed")
        /\ UNCHANGED <<currentQuestionText, incorrectlyAnsweredQuestions, explanationVars>>
  /\ UNCHANGED <<variant, topicIntroductionText, history, isReviewMode,
                 currentReviewQuestionIndex, currentUserScore, currentTotalPossibleScore,
                 summaryVars, isEvaluating, isGeneratingImage, audioVars>>

\* knowledgeQuizFlow resolves or rejects.  Without a question fetchQuizSummary is
\* started but not awaited, so the fetch's finally clears isLoading at once
fetchQuestionDoneV3 ==
  /\ variant = "v3"
  /\ call.kind \in {"firstQuestion", "nextQuestion"}
  /\ \/ \E raw \in NextRawOutputs(call.finalHistory) :
          LET nextQuestion == knowledgeQuizFlow(raw) IN
          IF IsQuestion(nextQuestion)
          THEN /\ currentQuestionText' = nextQuestion
               /\ currentStep' = "questioning"
               /\ isLoading' = FALSE
               /\ call' = NoCall
               /\ Did("questionLoaded")
               /\ UNCHANGED <<errorMessage, incorrectlyAnsweredQuestions, explanationVars>>
          ELSE /\ incorrectlyAnsweredQuestions' =
                    IF call.kind = "nextQuestion" THEN LowScoring(call.finalHistory)
                    ELSE incorrectlyAnsweredQuestions
               /\ currentStep' = "loading"
               /\ errorMessage' = Null
               /\ call' = [Call("getQuizSummary") EXCEPT !.finalHistory = call.finalHistory]
               /\ ResetExplanation
               /\ isLoading' = FALSE
               /\ Did("noQuestion")
               /\ UNCHANGED currentQuestionText
     \/ /\ Fail("couldn't get question")
        /\ Did("questionFailed")
        /\ UNCHANGED <<currentQuestionText, incorrectlyAnsweredQuestions, explanationVars>>
  /\ UNCHANGED <<variant, topicIntroductionText, history, isReviewMode,
                 currentReviewQuestionIndex, currentUserScore, currentTotalPossibleScore,
                 summaryVars, isEvaluating, isGeneratingImage, audioVars>>

\* getQuizSummary resolves or rejects; the review queue is rebuilt from the
\* history the summary was asked for, the scores are left as they are
fetchQuizSummaryDoneV3 ==
  /\ variant = "v3"
  /\ call.kind = "getQuizSummary"
  /\ \/ \E raw \in RawSummaryOutputs :
          LET output == quizSummaryFlow(raw) IN
          /\ summaryText' = output.summary
          /\ furtherLearningSuggestions' = output.suggestions
          /\ incorrectlyAnsweredQuestions' = LowScoring(call.finalHistory)
          /\ currentStep' = "summary"
          /\ isLoading' = FALSE
          /\ call' = NoCall
          /\ Did("summaryReady")
          /\ UNCHANGED errorMessage
     \/ /\ Fail("couldn't generate your quiz summary")
        /\ Did("summaryFailed")
        /\ UNCHANGED <<summaryVars, incorrectlyAnsweredQuestions>>
  /\ UNCHANGED <<variant, topicIntroductionText, currentQuestionText, history,
                 isReviewMode, currentReviewQuestionIndex, currentUserScore,
                 currentTotalPossibleScore, isEvaluating, isGeneratingImage,
                 explanationVars, audioVars>>

handleAnswerSubmitV3 ==
  /\ variant = "v3"
  /\ currentStep = "questioning"
  /\ currentQuestionText # Null
  /\ ~showExplanationSection
  /\ ~BusyV3
  /\ IF isReviewMode
     THEN currentTotalPossibleScore <
            (Len(history) + MaxReviewAnswers) * MAX_POINTS_PER_QUESTION
     ELSE Len(history) < MaxHistory
  /\ \E answer \in Answers :
       /\ answer = IF isReviewMode THEN "review answer" ELSE "answer"
       /\ call' = [Call("evaluateAnswer") EXCEPT !.answer = answer]
  /\ isEvaluating' = TRUE
  /\ isGeneratingImage' = FALSE
  /\ ResetExplanation
  /\ errorMessage' = Null
  /\ Did("handleAnswerSubmit")
  /\ UNCHANGED <<variant, currentStep, topicIntroductionText, currentQuestionText,
                 sessionVars, summaryVars, isLoading, audioVars>>

\* history.findIndex(h => h.question === question), 0 when there is none
FindIndex(hist, question) ==
  IF \E i \in 1..Len(hist) : hist[i].question = question
  THEN CHOOSE i \in 1..Len(hist) :
         /\ hist[i].question = question
         /\ \A j \in 1..(i - 1) : hist[j].question # question
  ELSE 0

\* handleAnswerSubmit after its try block: add to the running scores, then
\* append the item or, in review mode, overwrite the queue item under the
\* cursor and the first history item with the same question
RecordAnswerV3(answer, explanation, image, awardedPoints) ==
  /\ isEvaluating' = FALSE
  /\ currentUserScore' = currentUserScore + awardedPoints
  /\ currentTotalPossibleScore' = currentTotalPossibleScore + MAX_POINTS_PER_QUESTION
  /\ currentAwardedPoints' = awardedPoints
  /\ IF isReviewMode
     THEN LET originalQuestionToUpdate ==
                incorrectlyAnsweredQuestions[currentReviewQuestionIndex + 1]
              mainHistoryIndex == FindIndex(history, originalQuestionToUpdate.question)
              update(item) == [item EXCEPT !.answer = answer,
                                           !.explanation = explanation,
                                           !.generatedImageDataUri = image,
                                           !.awardedPoints = awardedPoints]
          IN /\ incorrectlyAnsweredQuestions' =
                  [incorrectlyAnsweredQuestions EXCEPT
                     ![currentReviewQuestionIndex + 1] = update(originalQuestionToUpdate)]
             /\ history' = IF mainHistoryIndex > 0
                           THEN [history EXCEPT ![mainHistoryIndex] = update(@)]
                           ELSE history
     ELSE /\ history' = Append(history, HistoryItem(currentQuestionText, answer,
                                                    explanation, image, awardedPoints))
          /\ UNCHANGED incorrectlyAnsweredQuestions
  /\ currentExplanation' = explanation
  /\ showExplanationSection' = TRUE
  /\ call' = NoCall
  /\ UNCHANGED <<isReviewMode, currentReviewQuestionIndex>>

\* evaluateAnswer resolves, or rejects and is replaced by a zero score with a
\* local explanation
evaluateAnswerDoneV3 ==
  /\ variant = "v3"
  /\ call.kind = "evaluateAnswer"
  /\ \/ \E raw \in RawEvaluations :
          LET evalOutput == evaluateAnswerFlowV3(raw) IN
          IF evalOutput.image
          THEN /\ isGeneratingImage' = TRUE
               /\ call' = [call EXCEPT !.kind = "generateImage",
                                       !.score = evalOutput.awardedScore,
                                       !.explanation = evalOutput.explanation]
               /\ Did("evaluatedWithPrompt")
               /\ UNCHANGED <<sessionVars, isEvaluating, explanationVars>>
          ELSE /\ RecordAnswerV3(call.answer, evalOutput.explanation, Null,
                                 evalOutput.awardedScore)
               /\ Did(IF raw.kind = "valid" THEN "evaluated" ELSE "evaluationFailed")
               /\ UNCHANGED <<isGeneratingImage, currentGeneratedImageDataUri>>
     \/ /\ RecordAnswerV3(call.answer, "fallback explanation",
                          Null, 0)
        /\ Did("evaluationFailed")
        /\ UNCHANGED <<isGeneratingImage, currentGeneratedImageDataUri>>
  /\ UNCHANGED <<variant, currentStep, topicIntroductionText, currentQuestionText,
                 summaryVars, errorMessage, isLoading, audioVars>>

generateImageDoneV3 ==
  /\ variant = "v3"
  /\ call.kind = "generateImage"
  /\ \E result \in {"image", "none", "throw"} :
       LET image == IF result = "image" THEN "image" ELSE Null IN
       /\ currentGeneratedImageDataUri' = image
       /\ RecordAnswerV3(call.answer, call.explanation, image, call.score)
       /\ Did(IF result = "image" THEN "imageReady" ELSE "imageFailed")
  /\ isGeneratingImage' = FALSE
  /\ UNCHANGED <<variant, currentStep, topicIntroductionText, currentQuestionText,
                 summaryVars, errorMessage, isLoading, audioVars>>

\* the handler without its review branch: the next question always comes from
\* the question source
handleProceedToNextQuestionNoReviewV3 ==
  /\ variant = "v3"
  /\ currentStep = "questioning"
  /\ currentQuestionText # Null
  /\ showExplanationSection
  /\ ~isLoading /\ ~isGeneratingImage
  /\ ResetExplanation
  /\ StartLoading("nextQuestion", history)
  /\ Did("handleProceedToNextQuestion")
  /\ UNCHANGED <<variant, topicIntroductionText, currentQuestionText, sessionVars,
                 summaryVars, isEvaluating, isGeneratingImage, audioVars>>

handleProceedToNextQuestionV3 ==
  /\ variant = "v3"
  /\ currentStep = "questioning"
  /\ currentQuestionText # Null
  /\ showExplanationSection
  /\ ~isLoading /\ ~isGeneratingImage
  /\ ResetExplanation
  /\ IF isReviewMode
     THEN LET nextIndex == currentReviewQuestionIndex + 1 IN
          IF nextIndex < Len(incorrectlyAnsweredQuestions)
          THEN /\ currentReviewQuestionIndex' = nextIndex
               /\ currentQuestionText' = incorrectlyAnsweredQuestions[nextIndex + 1].question
               /\ currentStep' = "questioning"
               /\ errorMessage' = Null
               /\ UNCHANGED <<isReviewMode, isLoading, call>>
          ELSE /\ isReviewMode' = FALSE
               /\ StartLoading("getQuizSummary", history)
               /\ UNCHANGED <<currentReviewQuestionIndex, currentQuestionText>>
     ELSE /\ StartLoading("nextQuestion", history)
          /\ UNCHANGED <<isReviewMode, currentReviewQuestionIndex, currentQuestionText>>
  /\ Did("handleProceedToNextQuestion")
  /\ UNCHANGED <<variant, topicIntroductionText, history, incorrectlyAnsweredQuestions,
                 currentUserScore, currentTotalPossibleScore, summaryVars, isEvaluating,
                 isGeneratingImage, audioVars>>

\* a review start that leaves the displayed question as the summary step had
\* it
handleStartReviewKeepingQuestionV3 ==
  /\ variant = "v3"
  /\ currentStep = "summary"
  /\ Len(incorrectlyAnsweredQuestions) > 0
  /\ ~isReviewMode
  /\ LET questionsToReview == LowScoring(history) IN
     IF Len(questionsToReview) > 0
     THEN /\ incorrectlyAnsweredQuestions' = questionsToReview
          /\ isReviewMode' = TRUE
          /\ currentReviewQuestionIndex' = 0
          /\ ResetExplanation
          /\ currentStep' = "questioning"
          /\ errorMessage' = Null
          /\ UNCHANGED currentQuestionText
     ELSE UNCHANGED <<incorrectlyAnsweredQuestions, isReviewMode,
                      currentReviewQuestionIndex, currentQuestionText,
                      explanationVars, currentStep, errorMessage>>
  /\ Did("handleStartReview")
  /\ UNCHANGED <<variant, topicIntroductionText, history, currentUserScore,
                 currentTotalPossibleScore, summaryVars, isLoading, isEvaluating,
                 isGeneratingImage, call, audioVars>>

\* the "Start Review" button of the summary panel: the queue is rebuilt from
\* the current history
handleStartReviewV3 ==
  /\ variant = "v3"
  /\ currentStep = "summary"
  /\ Len(incorrectlyAnsweredQuestions) > 0
  /\ ~isReviewMode
  /\ LET questionsToReview == LowScoring(history) IN
     IF Len(questionsToReview) > 0
     THEN /\ incorrectlyAnsweredQuestions' = questionsToReview
          /\ isReviewMode' = TRUE
          /\ currentReviewQuestionIndex' = 0
          /\ currentQuestionText' = questionsToReview[1].question
          /\ ResetExplanation
          /\ currentStep' = "questioning"
          /\ errorMessage' = Null
     ELSE UNCHANGED <<incorrectlyAnsweredQuestions, isReviewMode,
                      currentReviewQuestionIndex, currentQuestionText,
                      explanationVars, currentStep, errorMessage>>
  /\ Did("handleStartReview")
  /\ UNCHANGED <<variant, topicIntroductionText, history, currentUserScore,
                 currentTotalPossibleScore, summaryVars, isLoading, isEvaluating,
                 isGeneratingImage, call, audioVars>>

\* the error card replaces every other screen as soon as errorMessage is set
\* outside loading
RestartEnabledV3 ==
  \/ errorMessage # Null /\ currentStep # "loading" /\ errorMessage # "Processing PDF..."
  \/ currentStep = "introduction" /\ topicIntroductionText # Null
  \/ currentStep = "questioning" /\ currentQuestionText # Null /\ ~BusyV3
  \/ currentStep = "summary"

handleRestartQuizV3 ==
  /\ variant = "v3"
  /\ RestartEnabledV3
  /\ currentStep' = "config"
  /\ topicIntroductionText' = Null
  /\ currentQuestionText' = Null
  /\ ResetSession
  /\ summaryText' = Null
  /\ furtherLearningSuggestions' = 0
  /\ errorMessage' = Null
  /\ isLoading' = FALSE
  /\ isEvaluating' = FALSE
  /\ isGeneratingImage' = FALSE
  /\ ResetExplanation
  /\ Did("handleRestartQuiz")
  /\ UNCHANGED <<variant, audioVars, call>>

V3Next ==
  \/ configFormInvalidV3 \/ handleConfigSubmitV3 \/ readFileAsDataURIDoneV3 \/ fetchTopicIntroductionDoneV3
  \/ handleProceedToQuestionsV3 \/ fetchQuestionDoneV3 \/ fetchQuizSummaryDoneV3
  \/ handleAnswerSubmitV3 \/ evaluateAnswerDoneV3 \/ generateImageDoneV3
  \/ handleProceedToNextQuestionV3 \/ handleStartReviewV3 \/ handleRestartQuizV3

Next == P2Next \/ V3Next

Spec == Init /\ [][Next]_vars

\* ------------------------------------------------ the narration function
\* The handlers of the controller only pass fetchAndPlayNarration texts they
\* have found non-blank.  To exercise its blank-text branch, the "p2"
\* controller runs here next to one more caller, which passes any text at any
\* moment.
NarrationTexts == {"", " ", "narration"}

NarrationInit == Init /\ variant = "p2"

narrate ==
  /\ \E textToNarrate \in NarrationTexts :
       /\ fetchAndPlayNarration(textToNarrate)
       /\ Did(IF textToNarrate = "" THEN "narrateEmpty"
              ELSE IF IsBlank(textToNarrate) THEN "narrateWhitespace"
              ELSE "narrate")
  /\ UNCHANGED <<variant, currentStep, topicIntroductionText, currentQuestionText,
                 sessionVars, summaryVars, errorMessage, isLoading, isEvaluating,
                 isGeneratingImage, explanationVars, call>>

NarrationNext == P2Next \/ narrate

NarrationSpec == NarrationInit /\ [][NarrationNext]_vars

\* both controllers, the "p2" one next to that caller
SessionNext == Next \/ (variant = "p2" /\ narrate)

SessionSpec == Init /\ [][SessionNext]_vars

\* every awaited collaborator call settles: its promise resolves or rejects
\* and the code after the await runs
CollaboratorsResolve ==
  /\ WF_vars(readFileAsDataURIDone) /\ WF_vars(fetchTopicIntroductionDone)
  /\ WF_vars(fetchQuestionDone) /\ WF_vars(handleQuizEndDone)
  /\ WF_vars(evaluateAnswerDone) /\ WF_vars(generateImageDone)
  /\ WF_vars(textToSpeechDone)
  /\ WF_vars(readFileAsDataURIDoneV3) /\ WF_vars(fetchTopicIntroductionDoneV3)
  /\ WF_vars(fetchQuestionDoneV3) /\ WF_vars(fetchQuizSummaryDoneV3)
  /\ WF_vars(evaluateAnswerDoneV3) /\ WF_vars(generateImageDoneV3)

FairSpec == Init /\ [][Next]_vars /\ CollaboratorsResolve

\* ================================================================ properties
\* a textToSpeech request at position i of ttsPending resolves in this step
TtsDone(i) ==
  /\ lastAction' \in {"ttsAudio", "ttsNoAudio"}
  /\ i \in 1..Len(ttsPending)
  /\ ttsPending' = RemoveAt(ttsPending, i)

\* an answer is recorded in this step
Recorded ==
  /\ call.kind \in {"evaluateAnswer", "generateImage"}
  /\ lastAction' \in {"evaluated", "evaluationFailed", "imageReady", "imageFailed"}

\* C1: in every reachable state the possible score is five points per history
\* item and the user's score lies between 0 and the possible score
C1_ScoreMatchesHistory ==
  /\ currentTotalPossibleScore = Len(history) * MAX_POINTS_PER_QUESTION
  /\ 0 <= currentUserScore
  /\ currentUserScore <= currentTotalPossibleScore

\* C2: an answer recorded in review mode replaces answer, score and explanation
\* of the reviewed question's history item, leaves the length of the history
\* alone, and leaves currentUserScore equal to the sum of the awarded points of
\* the history as it is now
C2_ReviewAnswerReplaces ==
  [][(isReviewMode /\ Recorded) =>
       LET i == FindIndex(history, currentQuestionText) IN
       /\ Len(history') = Len(history)
       /\ i > 0
       /\ history'[i].answer = call.answer
       /\ history'[i].awardedPoints = currentAwardedPoints'
       /\ history'[i].explanation = currentExplanation'
       /\ currentUserScore' = Sum(history')]_vars

\* C3: a narration request issued before handleRestartQuiz that resolves after
\* it changes nothing: currentAudioUri stays null and no audio starts playing
C3_StaleNarrationAfterRestart ==
  [][\A i \in 1..Len(ttsPending) :
       (ttsPending[i].preRestart /\ TtsDone(i)) =>
          UNCHANGED <<currentAudioUri, audioPlayer>>]_vars

\* C4: a narration result of a request that a later fetchAndPlayNarration call
\* has superseded is discarded whenever it arrives: it neither becomes the
\* current audio nor starts or changes playback
C4_SupersededNarrationDiscarded ==
  [][\A i \in 1..Len(ttsPending) :
       (ttsPending[i].superseded /\ TtsDone(i)) =>
          UNCHANGED <<currentAudioUri, audioPlayer>>]_vars

\* C5: when the evaluation of a submitted answer fails, an item for the question
\* is recorded with 0 points and a non-empty fallback explanation, that
\* explanation is shown, and the step stays 'questioning'
C5_EvaluationFailureRecorded ==
  [][(lastAction' = "evaluationFailed" /\ call.kind = "evaluateAnswer") =>
       /\ \E i \in 1..Len(history') :
            /\ history'[i].question = currentQuestionText
            /\ history'[i].answer = call.answer
            /\ history'[i].awardedPoints = 0
            /\ history'[i].explanation \notin {Null, ""}
            /\ currentExplanation' = history'[i].explanation
       /\ showExplanationSection'
       /\ currentStep' = "questioning"]_vars

\* C6: in the summary step a history with an item scored below the threshold
\* makes the start-review button available, and handleStartReview then enters
\* review mode on the first such item in answering order; without such an item
\* handleStartReview does not enter review mode
C6_StartReviewEntersReview ==
  [][LET eligible == SelectSeq(history, LAMBDA item :
                        item.awardedPoints >= 0 /\ item.awardedPoints < 3) IN
     /\ (currentStep' = "summary" /\ Len(eligible) > 0 /\ history' = history)
          => (Len(incorrectlyAnsweredQuestions') > 0 /\ ~isReviewMode')
     /\ lastAction' = "handleStartReview" =>
          IF Len(eligible) > 0
          THEN /\ isReviewMode'
               /\ currentStep' = "questioning"
               /\ currentQuestionText' = eligible[1].question
          ELSE ~isReviewMode' /\ currentStep' = "summary"]_vars

\* C7: in the summary step and right after handleStartReview the review queue
\* is exactly the history items scored strictly below 3, in answering order
C7_QueueIsLowScoringHistory ==
  [][LET eligible == SelectSeq(history', LAMBDA item :
                        item.awardedPoints >= 0 /\ item.awardedPoints < 3) IN
     (currentStep' = "summary" \/ lastAction' = "handleStartReview")
        => incorrectlyAnsweredQuestions' = eligible]_vars

\* the summary is reached with one item below the threshold queued and one
\* item scored exactly at the threshold left out
C7_Witness ==
  /\ currentStep = "summary"
  /\ lastAction = "summaryReady"
  /\ Len(history) = 2
  /\ Len(incorrectlyAnsweredQuestions) = 1
  /\ \E i \in 1..2 : history[i].awardedPoints = REVIEW_SCORE_THRESHOLD

\* C8: handleRestartQuiz leaves step 'config', an empty history, an empty review
\* queue, isReviewMode false, cursor 0, both scores 0, no current question and
\* no narration pending
C8_RestartResetsSession ==
  [][lastAction' = "handleRestartQuiz" =>
       /\ currentStep' = "config"
       /\ history' = <<>>
       /\ incorrectlyAnsweredQuestions' = <<>>
       /\ ~isReviewMode'
       /\ currentReviewQuestionIndex' = 0
       /\ currentUserScore' = 0
       /\ currentTotalPossibleScore' = 0
       /\ currentQuestionText' = Null
       /\ ttsPending' = <<>>
       /\ ~isFetchingAudio'
       /\ currentAudioUri' = NoAudio]_vars

\* C9: a question fetch (first or later) installs only a real question; an
\* empty, blank, absent or non-string nextQuestion ends the quiz instead: the
\* summary is requested with exactly the current history (empty, with possible
\* score 0, on the first fetch) and the step is not 'error'
C9_NoQuestionEndsQuiz ==
  [][(call.kind \in {"firstQuestion", "nextQuestion"} /\ call' # call) =>
       \/ /\ lastAction' = "questionLoaded"
          /\ currentQuestionText' \in Questions
       \/ /\ lastAction' = "noQuestion"
          /\ call'.kind = "getQuizSummary"
          /\ call'.finalHistory = history
          /\ history' = history
          /\ currentStep' = "loading"
          /\ call.kind = "firstQuestion" =>
               (history = <<>> /\ currentTotalPossibleScore' = 0)
       \/ /\ lastAction' = "questionFailed"
          /\ call' = NoCall]_vars

\* a later question fetch came back without a question and the summary of the
\* answers so far is being fetched
C9_Witness ==
  /\ lastAction = "noQuestion"
  /\ call.kind = "getQuizSummary"
  /\ Len(history) > 0
  /\ call.finalHistory = history
  /\ currentStep = "loading"

\* C10: when the introduction, question or summary call fails the step becomes
\* 'error' with an error message, and history, scores and review queue are as
\* they were
C10_FetchFailureIsError ==
  [][lastAction' \in {"introductionFailed", "questionFailed", "summaryFailed"} =>
       /\ currentStep' = "error"
       /\ errorMessage' # Null
       /\ UNCHANGED <<history, currentUserScore, currentTotalPossibleScore,
                      incorrectlyAnsweredQuestions>>]_vars

\* the summary call failed after answers were scored and one was queued
C10_Witness ==
  /\ lastAction = "summaryFailed"
  /\ currentStep = "error"
  /\ errorMessage # Null
  /\ Len(history) > 0
  /\ currentUserScore > 0
  /\ Len(incorrectlyAnsweredQuestions) > 0

\* C11: while currentStep is 'error' the only handler that can run is
\* handleRestartQuiz, and it leads to 'config'; no question fetch, answer
\* evaluation, review start or summary request is issued from 'error'.  (A
\* narration request issued earlier may still resolve and the audio may end:
\* neither changes the step, the question or the session.)
C11_OnlyRestartFromError ==
  [][currentStep = "error" =>
       /\ lastAction' \in {"handleRestartQuiz", "ttsAudio", "ttsNoAudio", "audioEnded"}
       /\ call' = NoCall
       /\ IF lastAction' = "handleRestartQuiz"
          THEN currentStep' = "config"
          ELSE /\ currentStep' = "error"
               /\ UNCHANGED <<currentQuestionText, sessionVars>>]_vars

\* the error screen is up with answers in the history and items in the queue
C11_Witness ==
  /\ currentStep = "error"
  /\ errorMessage # Null
  /\ history # <<>>
  /\ incorrectlyAnsweredQuestions # <<>>

\* C12: when the evaluation comes back with an illustration request, the
\* explanation is on screen and the history holds the item with its score
\* while generateImage is still in flight
C12_ExplanationAndItemBeforeImage ==
  [][(call.kind = "evaluateAnswer" /\ lastAction' = "evaluatedWithPrompt") =>
       /\ call'.kind = "generateImage"
       /\ showExplanationSection'
       /\ currentExplanation' # Null
       /\ \E i \in 1..Len(history') :
            /\ history'[i].question = currentQuestionText
            /\ history'[i].answer = call.answer
            /\ history'[i].awardedPoints = call'.score]_vars

\* C13: in review mode handleProceedToNextQuestion moves the cursor forward by
\* exactly one and loads that queue item's question while another item
\* remains; on the last item it leaves review mode and requests the summary
\* for the current history.  No question is requested from the question
\* source while isReviewMode is true.
C13_ReviewProceedsThroughQueue ==
  [][/\ (isReviewMode /\ lastAction' = "handleProceedToNextQuestion") =>
          IF currentReviewQuestionIndex + 1 < Len(incorrectlyAnsweredQuestions)
          THEN /\ currentReviewQuestionIndex' = currentReviewQuestionIndex + 1
               /\ currentQuestionText' =
                    incorrectlyAnsweredQuestions[currentReviewQuestionIndex' + 1].question
               /\ currentStep' = "questioning"
               /\ isReviewMode'
               /\ call' = NoCall
          ELSE /\ ~isReviewMode'
               /\ call'.kind = "getQuizSummary"
               /\ call'.finalHistory = history
               /\ currentStep' = "loading"
               /\ currentReviewQuestionIndex' = currentReviewQuestionIndex
     /\ isReviewMode' => call'.kind \notin {"firstQuestion", "nextQuestion"}]_vars

\* the cursor has just moved to the second item of a two-item queue
C13_Witness ==
  /\ isReviewMode
  /\ lastAction = "handleProceedToNextQuestion"
  /\ Len(incorrectlyAnsweredQuestions) = 2
  /\ currentReviewQuestionIndex = 1
  /\ currentQuestionText = incorrectlyAnsweredQuestions[2].question

\* C14: when the summary arrives after a review round in which every item of
\* the queue was answered again and scored at least REVIEW_SCORE_THRESHOLD,
\* the rebuilt review queue is empty (so review is not offered again)
C14_PassedReviewEmptiesQueue ==
  [][(/\ call.kind = "getQuizSummary"
      /\ lastAction' = "summaryReady"
      /\ incorrectlyAnsweredQuestions # <<>>
      /\ \A i \in 1..Len(incorrectlyAnsweredQuestions) :
           /\ incorrectlyAnsweredQuestions[i].answer = "review answer"
           /\ incorrectlyAnsweredQuestions[i].awardedPoints >= REVIEW_SCORE_THRESHOLD)
       => incorrectlyAnsweredQuestions' = <<>>]_vars

\* C15: the first question is requested only by handleProceedToQuestions, and
\* only from the 'introduction' step with the introduction on screen; 'config'
\* is left only for 'loading', further questions are requested only from
\* 'questioning', and 'questioning' is entered only when a requested question
\* arrives or a review starts from the summary
C15_FirstQuestionAfterIntroduction ==
  [][/\ (call'.kind = "firstQuestion" /\ call.kind # "firstQuestion") =>
          /\ lastAction' = "handleProceedToQuestions"
          /\ currentStep = "introduction"
          /\ topicIntroductionText # Null
     /\ (call'.kind = "nextQuestion" /\ call.kind # "nextQuestion") =>
          currentStep = "questioning"
     /\ (currentStep' = "questioning" /\ currentStep # "questioning") =>
          \/ lastAction' = "questionLoaded" /\ call.kind \in {"firstQuestion", "nextQuestion"}
          \/ lastAction' = "handleStartReview" /\ currentStep = "summary"
     /\ currentStep = "config" => currentStep' \in {"config", "loading"}]_vars

\* the first question of a session has just been loaded
C15_Witness ==
  /\ lastAction = "questionLoaded"
  /\ currentStep = "questioning"
  /\ history = <<>>
  /\ ~isReviewMode
  /\ topicIntroductionText # Null

\* C16: handling a submitted answer (up to and including the arrival of the
\* evaluation and of the image) requests no question and no summary and
\* leaves step, question and review cursor alone; handleProceedToNextQuestion
\* runs only while the explanation is shown; and once the explanation is
\* shown it stays, with the same question, until the user proceeds or restarts
C16_StaysOnExplanation ==
  [][/\ (/\ call.kind \in {"evaluateAnswer", "generateImage"}
         /\ lastAction' \in {"evaluated", "evaluatedWithPrompt", "evaluationFailed",
                             "imageReady", "imageFailed"}) =>
          /\ call'.kind \in {"none", "generateImage"}
          /\ currentStep' = "questioning"
          /\ UNCHANGED <<currentQuestionText, currentReviewQuestionIndex, isReviewMode>>
     /\ lastAction' = "handleAnswerSubmit" =>
          /\ call'.kind = "evaluateAnswer"
          /\ UNCHANGED <<currentStep, currentQuestionText, currentReviewQuestionIndex,
                         isReviewMode>>
     /\ lastAction' = "handleProceedToNextQuestion" => showExplanationSection
     /\ showExplanationSection =>
          \/ /\ showExplanationSection'
             /\ UNCHANGED <<currentStep, currentQuestionText, currentReviewQuestionIndex>>
          \/ lastAction' \in {"handleProceedToNextQuestion", "handleRestartQuiz"}]_vars

\* an evaluation has just been recorded and its explanation is on screen
C16_Witness ==
  /\ lastAction = "evaluated"
  /\ showExplanationSection
  /\ currentStep = "questioning"
  /\ call = NoCall
  /\ history # <<>>

\* C17: when textToSpeech throws or returns no audio, currentAudioUri is null
\* and isFetchingAudio false afterwards, and step, error message, history,
\* scores and review queue are as they were
C17_NarrationFailureIsSilent ==
  [][lastAction' = "ttsNoAudio" =>
       /\ currentAudioUri' = NoAudio
       /\ ~isFetchingAudio'
       /\ UNCHANGED <<currentStep, errorMessage, history, currentUserScore,
                      currentTotalPossibleScore, incorrectlyAnsweredQuestions>>]_vars

\* a narration failed in the middle of a quiz with a scored answer
C17_Witness ==
  /\ lastAction = "ttsNoAudio"
  /\ currentStep = "questioning"
  /\ history # <<>>
  /\ currentUserScore > 0

\* C18: every narration call with a non-empty text issues exactly one
\* textToSpeech request and leaves no earlier utterance playing
C18_NarrationStopsPreviousAudio ==
  [][Len(ttsPending') > Len(ttsPending) =>
       /\ Len(ttsPending') = Len(ttsPending) + 1
       /\ ~audioPlayer']_vars

C20_SubmitNeedsLoadedQuestion ==
  [][(call'.kind = "evaluateAnswer" /\ call.kind # "evaluateAnswer") =>
       /\ lastAction' = "handleAnswerSubmit"
       /\ currentQuestionText \in Questions
       /\ currentStep = "questioning"
       /\ call = NoCall
       /\ ~isLoading /\ ~isEvaluating /\ ~isGeneratingImage
       /\ ~showExplanationSection
       /\ currentExplanation = Null]_vars

\* an answer to the second question is being evaluated
C20_Witness ==
  /\ lastAction = "handleAnswerSubmit"
  /\ call.kind = "evaluateAnswer"
  /\ isEvaluating
  /\ Len(history) = 1

\* C21: a configuration submitted with a topic shorter than TopicMinLength or
\* longer than TopicMaxLength does not run handleConfigSubmit: the step stays
\* 'config', no call is started, history, scores and review state are as they
\* were; the step leaves 'config' only with a topic of valid length
C21_InvalidTopicStartsNothing ==
  [][/\ lastAction' = "configFormInvalid" =>
          /\ currentStep = "config" /\ currentStep' = "config"
          /\ call' = call /\ call = NoCall
          /\ UNCHANGED <<sessionVars, isLoading, errorMessage>>
     /\ (lastAction' = "handleConfigSubmit" \/ (currentStep = "config" /\ currentStep' # "config")) =>
          /\ call'.kind \in {"readFileAsDataURI", "getTopicIntroduction"}
          /\ call'.topic >= TopicMinLength
          /\ call'.topic <= TopicMaxLength]_vars

\* a submit has just been rejected on the configuration screen
C21_Witness ==
  /\ lastAction = "configFormInvalid"
  /\ currentStep = "config"
  /\ call = NoCall

\* the calls a phase waits for, and the handlers the user triggers
PhaseCalls ==
  {"getTopicIntroduction", "firstQuestion", "nextQuestion", "evaluateAnswer",
   "getQuizSummary"}
Handlers ==
  {"handleConfigSubmit", "handleProceedToQuestions", "handleAnswerSubmit",
   "handleProceedToNextQuestion", "handleStartReview", "handleRestartQuiz"}

\* C22: while an introduction, question, evaluation or summary call is in
\* flight, isLoading or isEvaluating is true
C22_BusyWhileCallPending ==
  call.kind \in PhaseCalls => (isLoading \/ isEvaluating)

\* C23: no handler runs while a call is in flight, so a phase call starts only
\* when none is pending (or as the continuation of the one that just
\* completed, inside the same handler), and no answer is submitted while
\* another is being evaluated
C23_OnePhaseCallAtATime ==
  [][/\ lastAction' \in Handlers => call = NoCall
     /\ (call'.kind \in PhaseCalls /\ call'.kind # call.kind) =>
          \/ call = NoCall /\ lastAction' \in Handlers
          \/ call.kind \in {"firstQuestion", "nextQuestion"} /\ lastAction' = "noQuestion"
          \/ call.kind = "readFileAsDataURI" /\ lastAction' \in {"pdfRead", "pdfFailed"}
     /\ call.kind = "evaluateAnswer" => lastAction' # "handleAnswerSubmit"]_vars

\* the user has pressed a button while an evaluation is in flight
C23_Witness ==
  /\ call.kind = "evaluateAnswer"
  /\ isEvaluating
  /\ lastAction = "readQuestionAloud"

\* C24: every handler that attempts a transition leaves errorMessage null (or
\* the progress text of the PDF being read, which handleConfigSubmit puts there)
C24_HandlersClearErrorMessage ==
  [][lastAction' \in Handlers => errorMessage' \in {Null, "Processing PDF..."}]_vars

\* C25: outside restart and configuration submit the history never gets
\* shorter; a recorded fresh answer appends exactly one item and leaves the
\* earlier ones as they were; a recorded review answer keeps the length and
\* changes only the entry the queue item under the cursor was taken from; no
\* other step changes the history
C25_HistoryKeepsItsItems ==
  [][lastAction' \notin {"handleRestartQuiz", "handleConfigSubmit"} =>
       /\ Len(history') >= Len(history)
       /\ IF /\ call.kind \in {"evaluateAnswer", "generateImage"}
             /\ lastAction' \in {"evaluated", "imageReady", "imageFailed",
                                 "evaluationFailed"}
          THEN IF isReviewMode
               THEN /\ Len(history') = Len(history)
                    /\ \E k \in 1..Len(history) :
                         /\ history[k] =
                              incorrectlyAnsweredQuestions[currentReviewQuestionIndex + 1]
                         /\ history'[k].question = history[k].question
                         /\ \A j \in 1..Len(history) : j # k => history'[j] = history[j]
               ELSE \/ /\ Len(history') = Len(history) + 1
                       /\ SubSeq(history', 1, Len(history)) = history
                    \/ /\ variant = "p2"
                       /\ lastAction' = "evaluationFailed"
                       /\ history' = history
          ELSE history' = history]_vars

C27_SoftIntroductionFailureProceeds ==
  [][lastAction' = "introductionSoftFailed" =>
       /\ currentStep' = "introduction"
       /\ topicIntroductionText' # Null]_vars

\* C28: when generateImage throws or returns no image, the answer is in the
\* history with its score and explanation and without an image (appended when
\* it is a fresh answer), the explanation is shown, isGeneratingImage is false
\* and the step is still 'questioning' with the error message untouched
C28_ImageFailureStillRecords ==
  [][(call.kind = "generateImage" /\ lastAction' = "imageFailed") =>
       /\ \E i \in 1..Len(history') :
            history'[i] = HistoryItem(currentQuestionText, call.answer,
                                      call.explanation, Null, call.score)
       /\ ~isReviewMode => Len(history') = Len(history) + 1
       /\ showExplanationSection'
       /\ currentExplanation' = call.explanation
       /\ currentGeneratedImageDataUri' = Null
       /\ ~isGeneratingImage'
       /\ currentStep' = "questioning"
       /\ errorMessage' = errorMessage]_vars

\* the image of a fresh answer has just failed
C28_Witness ==
  /\ lastAction = "imageFailed"
  /\ currentStep = "questioning"
  /\ showExplanationSection
  /\ ~isReviewMode
  /\ history # <<>>
  /\ history[Len(history)].generatedImageDataUri = Null

\* C29: in the 'summary' step summaryText is a non-blank text and there are
\* between MinSuggestions and MaxSuggestions further-learning suggestions
C29_SummaryHasThreeToFiveSuggestions ==
  currentStep = "summary" =>
    /\ summaryText \notin {Null, "", " "}
    /\ furtherLearningSuggestions >= MinSuggestions
    /\ furtherLearningSuggestions <= MaxSuggestions

\* C30: isFetchingAudio is true whenever a textToSpeech request is in flight
C30_FetchingAudioWhilePending ==
  ttsPending # <<>> => isFetchingAudio

\* C31: while isReviewMode is true, currentReviewQuestionIndex is an index of
\* the review queue and currentQuestionText is the question of the queue item
\* under it
C31_ReviewCursorIsValid ==
  isReviewMode =>
    /\ currentReviewQuestionIndex \in 0..(Len(incorrectlyAnsweredQuestions) - 1)
    /\ currentQuestionText =
         incorrectlyAnsweredQuestions[currentReviewQuestionIndex + 1].question

\* a review answer has just been recorded for the second item of the queue
C31_Witness ==
  /\ isReviewMode
  /\ currentReviewQuestionIndex = 1
  /\ lastAction \in {"evaluated", "imageReady"}
  /\ incorrectlyAnsweredQuestions[2].answer = "review answer"

\* C32: while a phase-critical call is pending (currentStep is 'loading', or
\* isEvaluating or isGeneratingImage is true, or a call is in flight) no
\* restart button is enabled, and handleRestartQuiz only ever runs when no
\* introduction, question, evaluation, image or summary call is in flight
C32_NoRestartDuringPhaseCall ==
  [][/\ (currentStep = "loading" \/ isEvaluating \/ isGeneratingImage \/ call # NoCall)
          => ~(IF variant = "p2" THEN RestartEnabled ELSE RestartEnabledV3)
     /\ lastAction' = "handleRestartQuiz" =>
          /\ call = NoCall
          /\ currentStep # "loading" /\ ~isEvaluating /\ ~isGeneratingImage]_vars

\* the questioning screen with its restart button rendered while the image
\* call of the second answer is in flight
C32_Witness ==
  /\ currentStep = "questioning"
  /\ currentQuestionText # Null
  /\ isGeneratingImage
  /\ call.kind = "generateImage"
  /\ Len(history) = 1

\* C33: when no collaborator call and no textToSpeech request is in flight,
\* isLoading, isEvaluating, isGeneratingImage and isFetchingAudio are all
\* false
C33_NoBusyFlagWhenIdle ==
  (call = NoCall /\ ttsPending = <<>>) =>
    ~isLoading /\ ~isEvaluating /\ ~isGeneratingImage /\ ~isFetchingAudio

\* the configuration form is back after readFileAsDataURI rejected
C33_Witness ==
  /\ lastAction = "pdfFailed"
  /\ variant = "p2"
  /\ currentStep = "config"
  /\ errorMessage # Null
  /\ call = NoCall
  /\ ttsPending = <<>>

\* C34 as stated: if every collaborator call resolves or fails, a controller
\* in 'loading' eventually is in 'introduction', 'questioning', 'summary' or
\* 'error'
C34_LoadingEndsInAPhase ==
  (currentStep = "loading") ~>
    (currentStep \in {"introduction", "questioning", "summary", "error"})

\* C34: if every collaborator call resolves or fails, a controller in
\* 'loading' eventually is in 'introduction', 'questioning', 'summary' or
\* 'error' with a restart button enabled, or back in 'config' with the form
\* and nothing in flight
C34_LoadingEnds ==
  (currentStep = "loading") ~>
    \/ /\ currentStep \in {"introduction", "questioning", "summary", "error"}
       /\ IF variant = "p2" THEN RestartEnabled ELSE RestartEnabledV3
    \/ currentStep = "config" /\ call = NoCall /\ ~isLoading

\* a loading episode has just ended on the configuration form
C34_Witness ==
  /\ lastAction = "pdfFailed"
  /\ currentStep = "config"
  /\ ~isLoading
  /\ history = <<>>
====
